---- MODULE Spec2Model ----
(***************************************************************************)
(* Model of src/app.py: one run of the audit script on one uploaded CSV.   *)
(*                                                                         *)
(* Text is modelled as a sequence of one-character strings, so that        *)
(* str.strip, str.lower, str.isdigit, int() and the "%H:%M" parse are      *)
(* computed character by character.  The character written "o'" stands    *)
(* for the accented o of 'hora operación' and "O'" for its capital; the    *)
(* character "^2" stands for SUPERSCRIPT TWO, for which str.isdigit() is   *)
(* true and int() raises.                                                  *)
(*                                                                         *)
(* A nullable number (NaN, None, NaT) is a sequence of length 0 or 1:      *)
(* <<>> is the null and <<v>> the number v.                                *)
(***************************************************************************)
EXTENDS Integers, Sequences, FiniteSets, TLC

VARIABLES
    pc,                  \* position of the script
    archivo,             \* the uploaded file: raw headers and rows
    df,                  \* the DataFrame: [columns, rows]
    presentes,           \* line 86
    faltan_obligatorias, \* line 87
    faltan_opcionales,   \* line 88
    columnas_extra,      \* line 89
    features,            \* line 122: index of the rows handed to the model
    pantalla,            \* what the st.* calls have put on the page, in order
    excepcion            \* the exception caught at line 236, "" if none

vars == <<pc, archivo, df, presentes, faltan_obligatorias, faltan_opcionales,
          columnas_extra, features, pantalla, excepcion>>

----------------------------------------------------------------------------
\* Bounds of the model.

\* longest Hora text enumerated character by character
MaxLen == 4
\* most rows in an enumerated file
MaxFilas == 2
\* most unrecognised columns "x01", "x02", ... in a file
MaxExtra == 15

----------------------------------------------------------------------------
\* Nullable numbers.

NaN == <<>>
Num(v) == <<v>>
isna(x) == x = <<>>
Val(x) == x[1]

----------------------------------------------------------------------------
\* Characters and text.

Decimales == <<"0", "1", "2", "3", "4", "5", "6", "7", "8", "9">>
Mayusculas == <<"A", "B", "C", "D", "E", "F", "G", "H", "I", "J", "K", "L", "M",
                "N", "O", "P", "Q", "R", "S", "T", "U", "V", "W", "X", "Y", "Z",
                "O'">>
Minusculas == <<"a", "b", "c", "d", "e", "f", "g", "h", "i", "j", "k", "l", "m",
                "n", "o", "p", "q", "r", "s", "t", "u", "v", "w", "x", "y", "z",
                "o'">>

IsDecimal(c) == \E i \in 1..10 : Decimales[i] = c
DigitVal(c) == (CHOOSE i \in 1..10 : Decimales[i] = c) - 1
IsSpace(c) == c = " "

\* str.lower on one character
lower_char(c) ==
    IF \E i \in 1..Len(Mayusculas) : Mayusculas[i] = c
    THEN Minusculas[CHOOSE i \in 1..Len(Mayusculas) : Mayusculas[i] = c]
    ELSE c

\* str.lower
lower(s) == [i \in 1..Len(s) |-> lower_char(s[i])]

\* str.strip: drops the white space at both ends and only there
strip(s) ==
    IF \A i \in 1..Len(s) : IsSpace(s[i]) THEN <<>>
    ELSE LET a == CHOOSE i \in 1..Len(s) :
                      ~IsSpace(s[i]) /\ \A j \in 1..(i - 1) : IsSpace(s[j])
             b == CHOOSE i \in 1..Len(s) :
                      ~IsSpace(s[i]) /\ \A j \in (i + 1)..Len(s) : IsSpace(s[j])
         IN SubSeq(s, a, b)

\* str.endswith
endswith(s, suf) ==
    /\ Len(suf) <= Len(s)
    /\ SubSeq(s, Len(s) - Len(suf) + 1, Len(s)) = suf

\* value of a sequence of decimal digits, most significant first
RECURSIVE DecVal(_)
DecVal(s) ==
    IF s = <<>> THEN 0
    ELSE 10 * DecVal(SubSeq(s, 1, Len(s) - 1)) + DigitVal(s[Len(s)])

\* int(valor): an optional sign and one or more decimal digits; NaN stands for
\* the ValueError
int(s) ==
    LET cuerpo == IF s # <<>> /\ s[1] \in {"+", "-"} THEN Tail(s) ELSE s
    IN IF cuerpo # <<>> /\ \A i \in 1..Len(cuerpo) : IsDecimal(cuerpo[i])
       THEN Num(IF s[1] = "-" THEN 0 - DecVal(cuerpo) ELSE DecVal(cuerpo))
       ELSE NaN

\* str.isdigit: not empty and every character a digit, SUPERSCRIPT TWO included
isdigit(s) ==
    /\ s # <<>>
    /\ \A i \in 1..Len(s) : IsDecimal(s[i]) \/ s[i] = "^2"

\* the decimal text of an integer
RECURSIVE Digitos(_)
Digitos(n) ==
    IF n < 10 THEN <<Decimales[n + 1]>>
    ELSE Digitos(n \div 10) \o <<Decimales[(n % 10) + 1]>>

----------------------------------------------------------------------------
\* Column names, as the script spells them.

Fecha == <<"F", "e", "c", "h", "a">>
Cuenta == <<"C", "u", "e", "n", "t", "a">>
Debe == <<"D", "e", "b", "e">>
Haber == <<"H", "a", "b", "e", "r">>
Documento == <<"D", "o", "c", "u", "m", "e", "n", "t", "o">>
Hora == <<"H", "o", "r", "a">>
Hora_Normalizada ==
    <<"H", "o", "r", "a", "_", "N", "o", "r", "m", "a", "l", "i", "z", "a", "d", "a">>
Importe == <<"I", "m", "p", "o", "r", "t", "e">>
FueraHorario == <<"F", "u", "e", "r", "a", "H", "o", "r", "a", "r", "i", "o">>
Redondeado == <<"R", "e", "d", "o", "n", "d", "e", "a", "d", "o">>
Duplicado == <<"D", "u", "p", "l", "i", "c", "a", "d", "o">>
Fecha_Num == <<"F", "e", "c", "h", "a", "_", "N", "u", "m">>
Outlier == <<"O", "u", "t", "l", "i", "e", "r">>

\* lines 77-81
mapeo_columnas ==
    (<<"f", "e", "c", "h", "a">> :> Fecha) @@
    (<<"c", "u", "e", "n", "t", "a">> :> Cuenta) @@
    (<<"d", "e", "b", "e">> :> Debe) @@
    (<<"h", "a", "b", "e", "r">> :> Haber) @@
    (<<"d", "o", "c", "u", "m", "e", "n", "t", "o">> :> Documento) @@
    (<<"r", "e", "f", "e", "r", "e", "n", "c", "i", "a">> :> Documento) @@
    (<<"f", "a", "c", "t", "u", "r", "a">> :> Documento) @@
    (<<"h", "o", "r", "a">> :> Hora) @@
    (<<"h", "o", "r", "a", " ", "o", "p", "e", "r", "a", "c", "i", "o", "n">> :> Hora) @@
    (<<"h", "o", "r", "a", " ", "o", "p", "e", "r", "a", "c", "i", "o'", "n">> :> Hora)

\* lines 76 and 82: strip, lower, then rename through the table
renombrar(h) ==
    LET n == lower(strip(h))
    IN IF n \in DOMAIN mapeo_columnas THEN mapeo_columnas[n] ELSE n

columnas_obligatorias == {Fecha, Cuenta, Debe, Haber}
columnas_opcionales == {Documento, Hora}

----------------------------------------------------------------------------
\* normalizar_hora (lines 99-112)

contiene(s, c) == \E i \in 1..Len(s) : s[i] = c

TodoDecimal(s) == \A i \in 1..Len(s) : IsDecimal(s[i])

\* line 103: pd.to_datetime(valor, format="%H:%M").hour.  The text has to match
\* (2[0-3]|[0-1]\d|\d):([0-5]\d|\d) from its first to its last character; NaN
\* stands for the ValueError of a text that does not.
to_datetime_hour(valor) ==
    IF Cardinality({i \in 1..Len(valor) : valor[i] = ":"}) # 1 THEN NaN
    ELSE LET k == CHOOSE i \in 1..Len(valor) : valor[i] = ":"
             hh == SubSeq(valor, 1, k - 1)
             mm == SubSeq(valor, k + 1, Len(valor))
             okH == /\ TodoDecimal(hh)
                    /\ \/ Len(hh) = 1
                       \/ Len(hh) = 2 /\ DecVal(hh) <= 23
             okM == /\ TodoDecimal(mm)
                    /\ \/ Len(mm) = 1
                       \/ Len(mm) = 2 /\ DigitVal(mm[1]) <= 5
         IN IF okH /\ okM THEN Num(DecVal(hh)) ELSE NaN

\* parse_hora with the test of line 105 weakened to len(valor) > 1
parse_hora_len1(valor) ==
    IF contiene(valor, ":") THEN to_datetime_hour(valor)
    ELSE IF isdigit(valor) /\ Len(valor) > 1
         THEN IF isna(int(valor)) THEN NaN ELSE Num(Val(int(valor)) \div 100)
         ELSE int(valor)

\* lines 101-110; every except clause returns None, here NaN
parse_hora(valor) ==
    IF contiene(valor, ":") THEN to_datetime_hour(valor)
    ELSE IF isdigit(valor) /\ Len(valor) > 2
         THEN IF isna(int(valor)) THEN NaN ELSE Num(Val(int(valor)) \div 100)
         ELSE int(valor)

\* df[name] = valores, one value per row
Asignar(d, name, valores) ==
    [columns |-> d.columns \cup {name},
     rows |-> [i \in DOMAIN d.rows |-> (name :> valores[i]) @@ d.rows[i]]]

\* lines 100 and 111, for a DataFrame that has the column Hora
normalizar_hora(d) ==
    LET hora_col(i) == strip(d.rows[i][Hora])
    IN Asignar(d, Hora_Normalizada, [i \in DOMAIN d.rows |-> parse_hora(hora_col(i))])

----------------------------------------------------------------------------
\* procesar_datos (lines 114-128)

\* line 115: DataFrame.max(axis=1) skips the missing values of a row and is
\* missing only when both are
max_axis1(a, b) ==
    IF isna(a) THEN b
    ELSE IF isna(b) THEN a
    ELSE IF Val(a) >= Val(b) THEN a ELSE b

\* a comparison of a column with a number is False where the value is missing
lt(x, k) == ~isna(x) /\ Val(x) < k
gt(x, k) == ~isna(x) /\ Val(x) > k

\* lines 116-117 with the missing hour compared as if it were 0
fuera_horario_cero(h) ==
    LET v == IF isna(h) THEN 0 ELSE Val(h)
    IN (v < 8) \/ (v > 18)

\* lines 116-117: the column is first "< 8", then "|=" with "> 18"
fuera_horario(h) == lt(h, 8) \/ gt(h, 18)

\* Series.astype(str) of the Importe column: an int64 column prints its
\* integers, a float64 column prints them with ".0" and its NaN as "nan"
astype_str(x, esFloat) ==
    IF isna(x) THEN <<"n", "a", "n">>
    ELSE LET signo == IF Val(x) < 0 THEN <<"-">> ELSE <<>>
             abs == IF Val(x) < 0 THEN 0 - Val(x) ELSE Val(x)
         IN signo \o Digitos(abs) \o (IF esFloat THEN <<".", "0">> ELSE <<>>)

\* line 118
redondeado(x, esFloat) ==
    \/ endswith(astype_str(x, esFloat), <<"0", "0", "0">>)
    \/ endswith(astype_str(x, esFloat), <<"9", "9">>)

\* DataFrame.duplicated(subset, keep="first"): only the later copies
duplicated_first(rows, subset, i) ==
    \E j \in 1..(i - 1) : \A c \in subset : rows[j][c] = rows[i][c]

\* line 119: DataFrame.duplicated(subset, keep=False) marks every row whose
\* values on the subset occur in more than one row
duplicated(rows, subset, i) ==
    Cardinality({j \in DOMAIN rows : \A c \in subset : rows[j][c] = rows[i][c]}) > 1

\* line 120: pd.to_datetime(errors="coerce") on the date texts of the model,
\* as days since 1970-01-01; any other text is NaT
to_datetime(txt) ==
    CASE txt = "2024-01-01" -> Num(19723)
      [] txt = "2024-01-02" -> Num(19724)
      [] txt = "2024-01-03" -> Num(19725)
      [] OTHER -> NaN

\* Series.min() skips NaT and is NaT when nothing is left
fecha_min(fechas) ==
    LET validas == {i \in DOMAIN fechas : ~isna(fechas[i])}
    IN IF validas = {} THEN NaN
       ELSE fechas[CHOOSE i \in validas :
                       \A j \in validas : Val(fechas[i]) <= Val(fechas[j])]

\* line 121
fecha_num(f, min) == IF isna(f) \/ isna(min) THEN NaN ELSE Num(Val(f) - Val(min))

\* lines 115-121.  Each new column is computed from the columns the script
\* reads when it assigns it: Duplicado from the date texts (line 119 comes
\* before the conversion of line 120) and from Importe, Fecha_Num from the
\* converted dates.
derivar(d) ==
    LET esFloat == \E i \in DOMAIN d.rows :
                       isna(d.rows[i][Debe]) \/ isna(d.rows[i][Haber])
        importe(i) == max_axis1(d.rows[i][Debe], d.rows[i][Haber])
        conImporte == [i \in DOMAIN d.rows |-> (Importe :> importe(i)) @@ d.rows[i]]
        dup(i) == IF Documento \in d.columns
                  THEN duplicated(conImporte, {Fecha, Cuenta, Importe, Documento}, i)
                  ELSE FALSE
        fecha(i) == to_datetime(d.rows[i][Fecha])
        min == fecha_min([i \in DOMAIN d.rows |-> fecha(i)])
    IN [columns |-> d.columns \cup
                        {Importe, FueraHorario, Redondeado, Duplicado, Fecha_Num},
        rows |-> [i \in DOMAIN d.rows |->
                     (Importe :> importe(i)) @@
                     (FueraHorario :> fuera_horario(d.rows[i][Hora_Normalizada])) @@
                     (Redondeado :> redondeado(importe(i), esFloat)) @@
                     (Duplicado :> dup(i)) @@
                     (Fecha :> fecha(i)) @@
                     (Fecha_Num :> fecha_num(fecha(i), min)) @@
                     d.rows[i]]]

\* dropna that looks at Fecha_Num only
dropna_fecha(d) == {i \in DOMAIN d.rows : ~isna(d.rows[i][Fecha_Num])}

\* line 122: the index of df[["Fecha_Num", "Cuenta", "Importe"]].dropna()
dropna(d) ==
    {i \in DOMAIN d.rows :
        \A c \in {Fecha_Num, Cuenta, Importe} : ~isna(d.rows[i][c])}

\* lines 126-127
etiquetar(d, feats, outliers) ==
    Asignar(d, Outlier, [i \in DOMAIN d.rows |-> i \in feats /\ i \in outliers])

----------------------------------------------------------------------------
\* Report generation (lines 150-228)

\* line 174 divides by len(df)
generar_pdf_falla(d) == Len(d.rows) = 0

\* line 221: chr(64 + df.shape[1]) is a column letter up to "Z", chr(90); the
\* reference built past it is not a cell range and ExcelTable rejects it
generar_excel_falla(d) == 64 + Cardinality(d.columns) > 90

----------------------------------------------------------------------------
\* The uploaded files of the model.

\* raw headers, one for each column the script knows and one it does not
hFecha == <<"F", "e", "c", "h", "a">>
hCuenta == <<" ", "C", "U", "E", "N", "T", "A", " ">>
hDebe == <<"d", "e", "b", "e">>
hHaber == <<"H", "a", "b", "e", "r", " ">>
hFactura == <<"F", "a", "c", "t", "u", "r", "a">>
hHoraOp == <<"H", "O", "R", "A", " ", "O", "P", "E", "R", "A", "C", "I", "O'", "N">>
hNotas == <<"n", "o", "t", "a", "s">>

Encabezados == {hFecha, hCuenta, hDebe, hHaber, hFactura, hHoraOp, hNotas}
Completo == {hFecha, hCuenta, hDebe, hHaber, hFactura, hHoraOp}

\* the unrecognised headers "x01" ... "x<n>"
Relleno(n) == {<<"x", Decimales[(k \div 10) + 1], Decimales[(k % 10) + 1]>> : k \in 1..n}

\* the rows of descargar_csv_ejemplo (lines 50-57)
Ejemplo ==
    << [Fecha |-> "2024-01-01", Cuenta |-> Num(7000), Debe |-> Num(1000),
        Haber |-> Num(0), Documento |-> "INV001", Hora |-> <<"0", "7", ":", "4", "5">>],
       [Fecha |-> "2024-01-01", Cuenta |-> Num(7000), Debe |-> Num(1000),
        Haber |-> Num(0), Documento |-> "INV001", Hora |-> <<"0", "7", ":", "4", "5">>],
       [Fecha |-> "2024-01-02", Cuenta |-> Num(4300), Debe |-> Num(0),
        Haber |-> Num(1000), Documento |-> "INV002", Hora |-> <<"1", "2", ":", "0", "0">>],
       [Fecha |-> "2024-01-03", Cuenta |-> Num(1000), Debe |-> Num(1500),
        Haber |-> Num(0), Documento |-> "COMPRA1", Hora |-> <<"2", "0", ":", "0", "0">>] >>

\* the cell of row r under the raw header h
Celda(r, h) ==
    CASE h = hFecha -> r.Fecha
      [] h = hCuenta -> r.Cuenta
      [] h = hDebe -> r.Debe
      [] h = hHaber -> r.Haber
      [] h = hFactura -> r.Documento
      [] h = hHoraOp -> r.Hora
      [] OTHER -> ""

Archivo(cols, filas) ==
    [columnas |-> cols,
     filas |-> [i \in DOMAIN filas |-> [h \in cols |-> Celda(filas[i], h)]]]

SeqHasta(S, n) == UNION {[1..k -> S] : k \in 0..n}

\* files that differ in their headers
FilasEncabezados ==
    {Ejemplo, <<>>, <<[Ejemplo[1] EXCEPT !.Fecha = "s/f"]>>}

\* rows that differ in the four values duplicated() looks at
FilasDuplicado ==
    {[Fecha |-> f, Cuenta |-> Num(c), Debe |-> Num(d), Haber |-> Num(0),
      Documento |-> doc, Hora |-> <<"1", "2", ":", "0", "0">>] :
        f \in {"2024-01-01", "2024-01-02"}, c \in {7000, 4300},
        d \in {1000, 1500}, doc \in {"INV001", "INV002"}}

\* rows that differ in the values the three model features come from
FilasImporte ==
    {[Fecha |-> f, Cuenta |-> c, Debe |-> d, Haber |-> h,
      Documento |-> "INV001", Hora |-> <<"1", "2", ":", "0", "0">>] :
        f \in {"2024-01-01", "s/f"}, c \in {Num(7000), NaN},
        d \in {NaN, Num(0 - 5), Num(1000)}, h \in {NaN, Num(1500)}}

\* the Hora texts: every text of at most MaxLen of these characters, and
\* the formats the interface names
AlfabetoHora == {"0", "2", "9", ":", "a", "-", "^2", " "}
HorasEjemplo ==
    {<<"0", "7", ":", "4", "5">>, <<"1", "2", ":", "0", "0">>, <<"2", "0", ":", "0", "0">>, <<"0", "7", "4", "5">>, <<"1", "2", "0", "0">>, <<"a", "b", "c">>, <<"9", "9">>,
     <<"9", "3", "0">>, <<"7">>}
TextosHora == SeqHasta(AlfabetoHora, MaxLen) \cup HorasEjemplo

----------------------------------------------------------------------------
\* The run (lines 73-237)

Inicio(a) ==
    /\ archivo = a
    /\ pc = "leer"
    /\ df = [columns |-> {}, rows |-> <<>>]
    /\ presentes = {}
    /\ faltan_obligatorias = {}
    /\ faltan_opcionales = {}
    /\ columnas_extra = {}
    /\ features = {}
    /\ pantalla = <<>>
    /\ excepcion = ""

\* any headers, over the example file, an empty file and a file without a date
Init ==
    \E S \in SUBSET Encabezados, n \in 0..MaxExtra, f \in FilasEncabezados :
        Inicio(Archivo(S \cup Relleno(n), f))

\* with and without the Documento column, any rows of FilasDuplicado
InitDuplicado ==
    \E S \in {Completo, Completo \ {hFactura}},
       f \in SeqHasta(FilasDuplicado, MaxFilas) :
        Inicio(Archivo(S, f))

\* every column, any rows of FilasImporte
InitImporte ==
    \E f \in SeqHasta(FilasImporte, MaxFilas) : Inicio(Archivo(Completo, f))

\* every column, one row, any Hora text
InitHora ==
    \E t \in TextosHora :
        Inicio(Archivo(Completo, <<[Ejemplo[3] EXCEPT !.Hora = t]>>))

\* lines 236-237: the handler reports the exception and the script ends
Except(e) ==
    /\ pc' = "error"
    /\ excepcion' = e
    /\ pantalla' = Append(pantalla, "error_inesperado")

\* lines 75-89.  pd.read_csv raises EmptyDataError on a file without columns.
\* No two headers of the model are renamed to the same name.
LeerCSV ==
    /\ pc = "leer"
    /\ IF archivo.columnas = {}
       THEN /\ Except("EmptyDataError")
            /\ UNCHANGED <<df, presentes, faltan_obligatorias,
                           faltan_opcionales, columnas_extra>>
       ELSE \E nombre \in {[h \in archivo.columnas |-> renombrar(h)]} :
            LET cols == {nombre[h] : h \in archivo.columnas}
                origen(c) == CHOOSE h \in archivo.columnas : nombre[h] = c
            IN /\ df' = [columns |-> cols,
                         rows |-> [i \in DOMAIN archivo.filas |->
                                      [c \in cols |-> archivo.filas[i][origen(c)]]]]
               /\ presentes' = cols
               /\ faltan_obligatorias' = columnas_obligatorias \ cols
               /\ faltan_opcionales' = columnas_opcionales \ cols
               /\ columnas_extra' = cols \ (columnas_obligatorias \cup columnas_opcionales)
               /\ pc' = "validar"
               /\ UNCHANGED <<pantalla, excepcion>>
    /\ UNCHANGED <<archivo, features>>

\* the test of line 91 made to fire only when all four columns are missing
abortar_todas(faltan) == faltan = columnas_obligatorias

\* line 91: a non-empty set is true
abortar(faltan) == faltan # {}

\* lines 91-97.  st.stop() ends the run; the StopException it raises is not an
\* Exception, so the handler of line 236 does not see it.
ValidarColumnas ==
    /\ pc = "validar"
    /\ IF abortar(faltan_obligatorias)
       THEN /\ pantalla' = Append(pantalla, "error_columnas")
            /\ pc' = "stopped"
       ELSE /\ pantalla' = pantalla
                 \o (IF faltan_opcionales # {} THEN <<"warning_opcionales">> ELSE <<>>)
                 \o (IF columnas_extra # {} THEN <<"info_extra">> ELSE <<>>)
            /\ pc' = "normalizar"
    /\ UNCHANGED <<archivo, df, presentes, faltan_obligatorias, faltan_opcionales,
                   columnas_extra, features, excepcion>>

\* line 130; df["Hora"] at line 100 raises KeyError when the column is missing
NormalizarHora ==
    /\ pc = "normalizar"
    /\ IF Hora \notin df.columns
       THEN /\ Except("KeyError: 'Hora'")
            /\ UNCHANGED df
       ELSE /\ df' = normalizar_hora(df)
            /\ pc' = "procesar"
            /\ UNCHANGED <<pantalla, excepcion>>
    /\ UNCHANGED <<archivo, presentes, faltan_obligatorias, faltan_opcionales,
                   columnas_extra, features>>

\* line 131.  StandardScaler.fit_transform raises ValueError on a matrix of 0
\* rows; by then lines 115-121 have already changed df.  The labels of
\* IsolationForest.fit_predict are not computed here: any of the rows handed
\* to it may come back as -1.
ProcesarDatos ==
    /\ pc = "procesar"
    /\ \E d \in {derivar(df)} :
       LET feats == dropna(d)
       IN IF feats = {}
          THEN /\ df' = d
               /\ features' = feats
               /\ Except("ValueError: 0 samples")
          ELSE \E outliers \in SUBSET feats :
                   /\ df' = etiquetar(d, feats, outliers)
                   /\ features' = feats
                   /\ pc' = "mostrar"
                   /\ UNCHANGED <<pantalla, excepcion>>
    /\ UNCHANGED <<archivo, presentes, faltan_obligatorias, faltan_opcionales,
                   columnas_extra>>

\* lines 132-143
MostrarResultados ==
    /\ pc = "mostrar"
    /\ pantalla' = pantalla \o <<"success", "subheader_outliers", "grafico",
                                 "subheader_resultados", "tabla">>
    /\ pc' = "informes"
    /\ UNCHANGED <<archivo, df, presentes, faltan_obligatorias, faltan_opcionales,
                   columnas_extra, features, excepcion>>

\* lines 230-234: both reports are built before either button is shown
GenerarInformes ==
    /\ pc = "informes"
    /\ IF generar_pdf_falla(df)
       THEN /\ pc' = "error"
            /\ excepcion' = "ZeroDivisionError"
            /\ pantalla' = pantalla \o <<"subheader_descargas", "error_inesperado">>
       ELSE IF generar_excel_falla(df)
       THEN /\ pc' = "error"
            /\ excepcion' = "ValueError: cell range"
            /\ pantalla' = pantalla \o <<"subheader_descargas", "error_inesperado">>
       ELSE /\ pc' = "fin"
            /\ pantalla' = pantalla \o <<"subheader_descargas", "descarga_pdf",
                                         "descarga_excel">>
            /\ UNCHANGED excepcion
    /\ UNCHANGED <<archivo, df, presentes, faltan_obligatorias, faltan_opcionales,
                   columnas_extra, features>>

Next ==
    \/ LeerCSV
    \/ ValidarColumnas
    \/ NormalizarHora
    \/ ProcesarDatos
    \/ MostrarResultados
    \/ GenerarInformes

Spec == Init /\ [][Next]_vars
SpecDuplicado == InitDuplicado /\ [][Next]_vars
SpecImporte == InitImporte /\ [][Next]_vars
SpecHora == InitHora /\ [][Next]_vars

----------------------------------------------------------------------------
\* Properties.

Final == pc \in {"stopped", "error", "fin"}

\* the DataFrame has been read and its columns renamed
Leido == pc # "leer" /\ excepcion # "EmptyDataError"

\* one of the four required columns is not in the file.  Each of them has one
\* spelling among the headers of the model.
FaltaObligatoria == \E h \in {hFecha, hCuenta, hDebe, hHaber} : h \notin archivo.columnas

Derivadas ==
    {Hora_Normalizada, Importe, FueraHorario, Redondeado, Duplicado, Fecha_Num, Outlier}

Salidas == {"success", "grafico", "tabla", "descarga_pdf", "descarga_excel"}

Emitido(S) == \E k \in 1..Len(pantalla) : pantalla[k] \in S

\* C1: when a required column is missing after the headers are trimmed,
\* lowercased and renamed, the run stops at the column check with the schema
\* error: no derived column is ever computed, no row is handed to the model,
\* nothing but the schema error is put on the page and the generic handler
\* is not entered.
C1_FaltaObligatoriaAborta ==
    (Leido /\ FaltaObligatoria) =>
        /\ pc \in {"validar", "stopped"}
        /\ faltan_obligatorias # {}
        /\ df.columns \cap Derivadas = {}
        /\ features = {}
        /\ excepcion = ""
        /\ ~Emitido(Salidas \cup {"error_inesperado", "warning_opcionales", "info_extra"})
        /\ (pc = "stopped" => pantalla = <<"error_columnas">>)

\* C1 witness: a file with the Documento and Hora columns but without Debe
\* has been stopped
C1_Witness ==
    /\ pc = "stopped"
    /\ hDebe \notin archivo.columnas
    /\ {hFecha, hCuenta, hHaber, hFactura, hHoraOp} \subseteq archivo.columnas

\* a row of the file from which the three model features can be computed
FilaCompleta(i) ==
    /\ ~isna(to_datetime(archivo.filas[i][hFecha]))
    /\ ~isna(archivo.filas[i][hCuenta])
    /\ ~isna(archivo.filas[i][hDebe]) \/ ~isna(archivo.filas[i][hHaber])

\* C2: when the four required columns are present and Documento or Hora is
\* missing, the run still goes through normalizar_hora and procesar_datos and
\* has the annotated dataset at its end (stated for files with a row the
\* model can score).
C2_OpcionalNoFatal ==
    (/\ Final
     /\ ~FaltaObligatoria
     /\ (hFactura \notin archivo.columnas \/ hHoraOp \notin archivo.columnas)
     /\ \E i \in DOMAIN archivo.filas : FilaCompleta(i))
        => /\ Derivadas \subseteq df.columns
           /\ excepcion \notin {"KeyError: 'Hora'", "ValueError: 0 samples"}

\* the trimmed Hora text of row i of the file, and its normalised hour
TextoHora(i) == strip(archivo.filas[i][hHoraOp])
HoraNorm(i) == df.rows[i][Hora_Normalizada]

\* the ways to write n that "%H" and "%M" read: its digits, and with a
\* leading zero when there is only one
Escrituras(n) == {Digitos(n)} \cup (IF n < 10 THEN {<<"0">> \o Digitos(n)} ELSE {})

\* the hours h for which the text is h, a colon, and a minute m
HorasHM(v) ==
    {h \in 0..23 :
        \E k \in 1..Len(v) :
            /\ v[k] = ":"
            /\ SubSeq(v, 1, k - 1) \in Escrituras(h)
            /\ \E m \in 0..59 : SubSeq(v, k + 1, Len(v)) \in Escrituras(m)}

\* C3: Hora_Normalizada follows the three rules on the trimmed text, first
\* match wins: with a colon, the hour of the HH:MM reading or null; else all
\* decimal digits and longer than 2, the integer value divided by 100; else
\* the integer parse or null.  "930" gives 9, "7" gives 7, "abc" gives null,
\* and normalizar_hora returns for every text.
C3_ReglasHora ==
    /\ (pc \notin {"leer", "validar", "normalizar"} /\ hHoraOp \in archivo.columnas)
           => Hora_Normalizada \in df.columns
    /\ Hora_Normalizada \in df.columns =>
         \A i \in DOMAIN df.rows :
            LET v == TextoHora(i)
                r == HoraNorm(i)
            IN /\ contiene(v, ":") =>
                     IF HorasHM(v) = {} THEN r = NaN
                     ELSE r = Num(CHOOSE h \in HorasHM(v) : TRUE)
               /\ (~contiene(v, ":") /\ TodoDecimal(v) /\ Len(v) > 2) =>
                     r = Num(DecVal(v) \div 100)
               /\ (~contiene(v, ":") /\ ~(TodoDecimal(v) /\ Len(v) > 2)) =>
                     r = int(v)
               /\ v = <<"9", "3", "0">> => r = Num(9)
               /\ v = <<"7">> => r = Num(7)
               /\ v = <<"a", "b", "c">> => r = NaN

\* C3 witness: the text "930" has been normalised to 9
C3_Witness ==
    /\ pc = "fin"
    /\ \E i \in DOMAIN df.rows : TextoHora(i) = <<"9", "3", "0">> /\ HoraNorm(i) = Num(9)

\* C4: in the annotated dataset of a finished run, every Hora_Normalizada is
\* null or an hour from 0 to 23.
C4_HoraEnRango ==
    pc = "fin" =>
        \A i \in DOMAIN df.rows : isna(HoraNorm(i)) \/ Val(HoraNorm(i)) \in 0..23

\* C5: FueraHorario is true exactly for the rows whose Hora_Normalizada is
\* present and below 8 or above 18; a row with a null hour is never flagged.
C5_FueraHorario ==
    FueraHorario \in df.columns =>
        \A i \in DOMAIN df.rows :
            /\ df.rows[i][FueraHorario] <=>
                   (HoraNorm(i) # NaN /\ (Val(HoraNorm(i)) < 8 \/ Val(HoraNorm(i)) > 18))
            /\ HoraNorm(i) = NaN => ~df.rows[i][FueraHorario]

\* C5 witness: a finished run with a row whose hour is null and not flagged
C5_Witness ==
    /\ pc = "fin"
    /\ \E i \in DOMAIN df.rows : HoraNorm(i) = NaN /\ ~df.rows[i][FueraHorario]

\* rows i and j of the file agree on Date, Account, Amount and Document
MismaClave(i, j) ==
    /\ archivo.filas[i][hFecha] = archivo.filas[j][hFecha]
    /\ archivo.filas[i][hCuenta] = archivo.filas[j][hCuenta]
    /\ df.rows[i][Importe] = df.rows[j][Importe]
    /\ archivo.filas[i][hFactura] = archivo.filas[j][hFactura]

\* C6: with the Documento column, a row is Duplicado exactly when another row
\* has the same Date, Account, Amount and Document, so every member of a group
\* is marked; without the column no row is.
C6_DuplicadoSimetrico ==
    Duplicado \in df.columns =>
        \A i \in DOMAIN df.rows :
            IF hFactura \in archivo.columnas
            THEN df.rows[i][Duplicado] <=>
                     \E j \in DOMAIN df.rows : j # i /\ MismaClave(i, j)
            ELSE ~df.rows[i][Duplicado]

\* C6 witness: a finished run in which an earlier and a later copy are both
\* marked
C6_Witness ==
    /\ pc = "fin"
    /\ hFactura \in archivo.columnas
    /\ \E i, j \in DOMAIN df.rows :
          i < j /\ MismaClave(i, j) /\ df.rows[i][Duplicado] /\ df.rows[j][Duplicado]

CeroSiFalta(x) == IF isna(x) THEN 0 ELSE Val(x)

\* C7: in the annotated dataset of a finished run, Importe is the larger of
\* Debe and Haber with a missing value counted as 0, and is not negative
\* (stated for the rows whose amounts, where present, are not negative).
C7_ImporteMaximo ==
    pc = "fin" =>
        \A i \in DOMAIN df.rows :
            LET a == CeroSiFalta(archivo.filas[i][hDebe])
                b == CeroSiFalta(archivo.filas[i][hHaber])
            IN (a >= 0 /\ b >= 0) =>
                   /\ df.rows[i][Importe] = Num(IF a >= b THEN a ELSE b)
                   /\ Val(df.rows[i][Importe]) >= 0

\* one of the three model features of row i is null
FeatureNula(i) ==
    \/ isna(df.rows[i][Fecha_Num])
    \/ isna(df.rows[i][Cuenta])
    \/ isna(df.rows[i][Importe])

\* C8: a row with a null model feature is not handed to the scaler and the
\* model and has Outlier false; only rows handed to the model have Outlier
\* true.
C8_OutlierSoloPuntuadas ==
    /\ Fecha_Num \in df.columns =>
           \A i \in DOMAIN df.rows : FeatureNula(i) => i \notin features
    /\ Outlier \in df.columns =>
           \A i \in DOMAIN df.rows :
               /\ FeatureNula(i) => ~df.rows[i][Outlier]
               /\ df.rows[i][Outlier] => i \in features

\* C8 witness: a finished run with a row left out for a null feature next to a
\* row flagged by the model
C8_Witness ==
    /\ pc = "fin"
    /\ \E i, j \in DOMAIN df.rows :
          FeatureNula(i) /\ ~df.rows[i][Outlier] /\ df.rows[j][Outlier]

\* C9: when no row has all three features, the detector does not fail: the
\* run ends with the annotated dataset and no row flagged.
C9_MatrizVacia ==
    (Final /\ Fecha_Num \in df.columns /\ \A i \in DOMAIN df.rows : FeatureNula(i))
        => /\ Outlier \in df.columns
           /\ \A i \in DOMAIN df.rows : ~df.rows[i][Outlier]
           /\ excepcion = ""

\* C10: a run ends either with all of its outputs or with one reported error
\* and none of them; a run that ends in the generic error has put no success
\* message, chart, table or download on the page.
C10_TodoONada ==
    /\ pc = "error" => ~Emitido(Salidas)
    /\ Final =>
          \/ /\ \A o \in Salidas : Emitido({o})
             /\ ~Emitido({"error_columnas", "error_inesperado"})
          \/ /\ ~Emitido(Salidas)
             /\ Cardinality({k \in 1..Len(pantalla) :
                    pantalla[k] \in {"error_columnas", "error_inesperado"}}) = 1

====
